---- MODULE Spec2Model ----
(***************************************************************************)
(* Model of answer_verifier_example.py: a process that loads credentials   *)
(* and an expectation record, fetches one file through the GitHub contents *)
(* API, compares it with the expected text and exits 0 or 1.               *)
(*                                                                         *)
(* Text is a sequence of Unicode code points.  A Python / JSON / YAML      *)
(* value is a record [t |-> tag, v |-> sequence of naturals]:              *)
(*   "str"  v = the code points        "int"  v = <<n>>                    *)
(*   "none" v = <<>>  (None / null)    "bool" v = <<0>> or <<1>>           *)
(*   "list" v = the elements (as naturals)                                 *)
(* and "absent" (v = <<>>) stands for a key that a mapping does not hold.  *)
(***************************************************************************)
EXTENDS Integers, Sequences, FiniteSets, TLC

VARIABLES
    pc,           \* position of the process in main()
    envExists,    \* os.path.exists(".env.example")
    token,        \* os.getenv("MCP_GITHUB_TOKEN") after load_dotenv
    org,          \* os.getenv("GITHUB_EVAL_ORG") after load_dotenv
    cfgExists,    \* os.path.exists("answer_config.yaml")
    cfgDoc,       \* what yaml.safe_load yields for answer_config.yaml
    orch,         \* state of run_verification (the orchestrator)
    response,     \* outcome of requests.get, once the request was made
    requests,     \* number of network requests issued
    content,      \* value returned by fetch_github_file
    verifyCalled, \* verify_answer_content has been invoked
    result,       \* value returned by run_verification: "none", "pass", "fail"
    stderr,       \* diagnostics printed to sys.stderr, in order
    exitCode,     \* process exit status, -1 while running
    uncaught      \* the process ended on an unhandled exception

vars == <<pc, envExists, token, org, cfgExists, cfgDoc, orch, response,
          requests, content, verifyCalled, result, stderr, exitCode, uncaught>>

----------------------------------------------------------------------------
(* Bounds of the model *)

\* longest text drawn for the file content and expected_content of a full run
MaxLen == 2
\* longest text drawn for the two arguments of the comparator on its own
MaxCmpLen == 3

----------------------------------------------------------------------------
(* Values *)

PyStr(s)  == [t |-> "str", v |-> s]
PyInt(n)  == [t |-> "int", v |-> <<n>>]
PyNone    == [t |-> "none", v |-> <<>>]
PyBool(b) == [t |-> "bool", v |-> <<IF b THEN 1 ELSE 0>>]
PyList(s) == [t |-> "list", v |-> s]
\* a key that a mapping does not hold
Absent    == [t |-> "absent", v |-> <<>>]

IsStr(x) == x.t = "str"

\* Python truth value of x: the test `not x` of lines 90, 93 and 198
Truthy(x) ==
    CASE x.t = "str"  -> x.v # <<>>
      [] x.t = "int"  -> x.v[1] # 0
      [] x.t = "bool" -> x.v[1] = 1
      [] x.t = "list" -> x.v # <<>>
      [] OTHER        -> FALSE

\* len(x) is defined (line 200); it raises TypeError otherwise
HasLen(x) == x.t \in {"str", "list"}

\* code points: space, line feed, "a", "A"
Alphabet == {32, 10, 97, 65}

\* every text over Alphabet of length at most n
TextsUpTo(n) == UNION {[1..k -> Alphabet] : k \in 0..n}

----------------------------------------------------------------------------
(* str.strip(): lines 172-173 *)

\* the code points Python's str.strip() removes (str.isspace)
Whitespace ==
    {9, 10, 11, 12, 13, 28, 29, 30, 31, 32, 133, 160, 5760, 8232, 8233,
     8239, 8287, 12288} \cup (8192..8202)

RECURSIVE LStripIndex(_, _)
\* first index at or after i whose code point is not whitespace
LStripIndex(s, i) ==
    IF i <= Len(s) /\ s[i] \in Whitespace THEN LStripIndex(s, i + 1) ELSE i

RECURSIVE RStripIndex(_, _, _)
\* last index j >= i - 1 whose code point is not whitespace
RStripIndex(s, i, j) ==
    IF j >= i /\ s[j] \in Whitespace THEN RStripIndex(s, i, j - 1) ELSE j

\* a mutant of Strip: only leading whitespace is removed
StripLeadingOnly(s) == SubSeq(s, LStripIndex(s, 1), Len(s))

Strip(s) ==
    LET i == LStripIndex(s, 1)
        j == RStripIndex(s, i, Len(s))
    IN  SubSeq(s, i, j)

----------------------------------------------------------------------------
(* base64.b64decode(...).decode("utf-8"): line 152 *)

\* the 6-bit value of a base64 digit, 64 for any other code point
B64Value(c) ==
    CASE c \in 65..90  -> c - 65
      [] c \in 97..122 -> c - 71
      [] c \in 48..57  -> c + 4
      [] c = 43        -> 62
      [] c = 47        -> 63
      [] OTHER         -> 64

RECURSIVE A2B(_, _, _, _, _, _)
\* binascii.a2b_base64, non-strict: s from index i on, with quad position q,
\* leftover bits left, pad count pads and output out
A2B(s, i, q, left, pads, out) ==
    IF i > Len(s)
    THEN [ok |-> q = 0, bytes |-> out]
    ELSE LET c == s[i]
             d == B64Value(c)
         IN  IF c = 61
             THEN IF q >= 2 /\ q + pads + 1 >= 4
                  THEN [ok |-> TRUE, bytes |-> out]
                  ELSE A2B(s, i + 1, q, left, IF q >= 2 THEN pads + 1 ELSE pads, out)
             ELSE IF d = 64
             THEN A2B(s, i + 1, q, left, pads, out)
             ELSE CASE q = 0 -> A2B(s, i + 1, 1, d, 0, out)
                    [] q = 1 -> A2B(s, i + 1, 2, d % 16, 0,
                                    Append(out, left * 4 + d \div 16))
                    [] q = 2 -> A2B(s, i + 1, 3, d % 4, 0,
                                    Append(out, left * 16 + d \div 4))
                    [] q = 3 -> A2B(s, i + 1, 0, 0, 0,
                                    Append(out, left * 64 + d))

\* base64.b64decode(x): x must be an ASCII str
B64Decode(x) ==
    IF IsStr(x) /\ \A k \in 1..Len(x.v) : x.v[k] < 128
    THEN A2B(x.v, 1, 0, 0, 0, <<>>)
    ELSE [ok |-> FALSE, bytes |-> <<>>]

Cont(b) == b \in 128..191

RECURSIVE Utf8(_, _, _)
\* bytes.decode("utf-8"), strict: b from index i on, with output out
Utf8(b, i, out) ==
    IF i > Len(b)
    THEN [ok |-> TRUE, text |-> out]
    ELSE LET n  == Len(b) - i + 1
             b0 == b[i]
         IN  CASE b0 < 128 -> Utf8(b, i + 1, Append(out, b0))
               [] b0 \in 194..223 /\ n >= 2 /\ Cont(b[i + 1]) ->
                    Utf8(b, i + 2, Append(out, (b0 - 192) * 64 + (b[i + 1] - 128)))
               [] b0 \in 224..239 /\ n >= 3 /\ Cont(b[i + 1]) /\ Cont(b[i + 2])
                    /\ (b0 = 224 => b[i + 1] >= 160)
                    /\ (b0 = 237 => b[i + 1] <= 159) ->
                    Utf8(b, i + 3, Append(out, (b0 - 224) * 4096
                                   + (b[i + 1] - 128) * 64 + (b[i + 2] - 128)))
               [] b0 \in 240..244 /\ n >= 4 /\ Cont(b[i + 1]) /\ Cont(b[i + 2])
                    /\ Cont(b[i + 3])
                    /\ (b0 = 240 => b[i + 1] >= 144)
                    /\ (b0 = 244 => b[i + 1] <= 143) ->
                    Utf8(b, i + 4, Append(out, (b0 - 240) * 262144
                                   + (b[i + 1] - 128) * 4096
                                   + (b[i + 2] - 128) * 64 + (b[i + 3] - 128)))
               [] OTHER -> [ok |-> FALSE, text |-> <<>>]

\* base64.b64decode(x).decode("utf-8"): the text, or ok = FALSE when either
\* step raises
DecodeBase64Utf8(x) ==
    LET raw == B64Decode(x)
    IN  IF raw.ok THEN Utf8(raw.bytes, 1, <<>>) ELSE [ok |-> FALSE, text |-> <<>>]

----------------------------------------------------------------------------
(* Inputs: the environment, the configuration file and the server *)

\* CONFIG["CONFIG_REQUIRED_FIELDS"], in the order of required_fields
RequiredFields ==
    <<"target_repo", "target_branch", "answer_file_path", "expected_content">>

Fields == {RequiredFields[k] : k \in 1..Len(RequiredFields)}

\* what os.getenv can yield: unset, set but empty, set
EnvValues == {PyNone, PyStr(<<>>), PyStr(<<116>>)}

\* a coordinate of the expectation as the YAML file gives it
CoordValues == {Absent, PyStr(<<>>), PyStr(<<114>>)}

\* expected_content as the YAML file gives it: a text, a number, null
ExpectedValues ==
    {Absent, PyInt(42), PyNone} \cup {PyStr(s) : s \in TextsUpTo(MaxLen)}

\* `field in config` is true of a config that is a str or a list: the name
\* is a substring or an element, and no value goes with it
Contained == [t |-> "contained", v |-> <<>>]

\* yaml.safe_load of the configuration file: a parse error, an empty
\* document (None), a mapping, or a string or list in which `field in config`
\* is true of the names given as Contained
ConfigDocs ==
    {[kind |-> k, vals |-> [f \in Fields |-> Absent]] : k \in {"invalid", "none"}}
    \cup {[kind |-> k, vals |-> [f \in Fields |-> IF f \in K THEN Contained ELSE Absent]] :
            k \in {"str", "list"}, K \in {Fields, Fields \ {"target_branch"}}}
    \cup {[kind |-> "dict", vals |-> v] :
            v \in [target_repo : CoordValues, target_branch : CoordValues,
                   answer_file_path : CoordValues, expected_content : ExpectedValues]}

\* CONFIG["ENCODING"]["github_file_encoding"]: the text "base64"
GithubFileEncoding == PyStr(<<98, 97, 115, 101, 54, 52>>)

\* the encoding field of a contents response: absent, "base64", "none", null
EncodingValues == {Absent, GithubFileEncoding, PyStr(<<110, 111, 110, 101>>), PyNone}

\* base64 payloads: "aGVsbG8=" (hello), the same broken into lines,
\* "YQ==" (a), "IGEK" (space a newline), "YSBh" (a space a), "w6k=" (e acute),
\* "YQ" and "YQ=" (incorrect padding), "/w==" (not UTF-8), and a non-ASCII text
B64Samples ==
    {<<97, 71, 86, 115, 98, 71, 56, 61>>,
     <<97, 71, 86, 115, 10, 98, 71, 56, 61, 10>>,
     <<89, 81, 61, 61>>, <<73, 71, 69, 75>>, <<89, 83, 66, 104>>,
     <<119, 54, 107, 61>>,
     <<89, 81>>, <<89, 81, 61>>, <<47, 119, 61, 61>>, <<233>>}

\* the content field of a contents response, of any JSON type or absent
ContentValues ==
    {Absent, PyNone, PyInt(0), PyInt(5), PyBool(TRUE), PyList(<<>>), PyList(<<1>>)}
    \cup {PyStr(s) : s \in TextsUpTo(MaxLen) \cup B64Samples}

success_status_code == 200
not_found_status_code == 404

Resp(tr, st, body, enc, c) ==
    [transport |-> tr, status |-> st, body |-> body, encoding |-> enc, content |-> c]

\* before the request is made
NoResponse == Resp(FALSE, 0, "none", Absent, Absent)

\* what requests.get can do: raise (transport = TRUE), or return a status
\* with a body that is not JSON, a JSON array, or a JSON object
Responses ==
    {Resp(TRUE, 0, "none", Absent, Absent)}
    \cup {Resp(FALSE, st, "text", Absent, Absent) : st \in {not_found_status_code, 403, 500}}
    \cup {Resp(FALSE, success_status_code, b, Absent, Absent) : b \in {"invalid", "array"}}
    \cup {Resp(FALSE, success_status_code, "object", e, c) :
            e \in EncodingValues, c \in ContentValues}

\* one line (or block) written to sys.stderr
Diag(kind, field, status, expected, actual) ==
    [kind |-> kind, field |-> field, status |-> status,
     expected |-> expected, actual |-> actual]

Msg(kind) == Diag(kind, "", 0, <<>>, <<>>)

----------------------------------------------------------------------------
(* The functions of the program *)

\* nothing printed
NoDiag == Msg("")

\* a mutant of EnvError: the token is not checked
EnvErrorNoTokenCheck(exists, tok, og) ==
    IF ~exists THEN Msg("env_file_missing")
    ELSE IF ~Truthy(og) THEN Msg("org_missing")
    ELSE NoDiag

\* load_environment: the error it reports before sys.exit(1), NoDiag when it
\* returns the pair
EnvError(exists, tok, og) ==
    IF ~exists THEN Msg("env_file_missing")
    ELSE IF ~Truthy(tok) THEN Msg("token_missing")
    ELSE IF ~Truthy(og) THEN Msg("org_missing")
    ELSE NoDiag

\* load_project_config: the error it reports before sys.exit(1), NoDiag when
\* it returns config.  A parse error and the TypeError of `field not in None`
\* are caught by `except Exception`; the SystemExit of line 120 is not.
ConfigError(exists, doc) ==
    IF ~exists THEN Msg("config_file_missing")
    ELSE IF doc.kind \in {"invalid", "none"} THEN Msg("config_load_failed")
    ELSE LET missing == {k \in 1..Len(RequiredFields) :
                            doc.vals[RequiredFields[k]] = Absent}
         IN  IF missing = {} THEN NoDiag
             ELSE Diag("field_missing",
                       RequiredFields[CHOOSE k \in missing : \A m \in missing : k <= m],
                       0, <<>>, <<>>)

\* the except branch of fetch_github_file: lines 162-164
FetchRaised == [value |-> PyNone, diag |-> Msg("request_exception")]

\* a mutant of FetchOutcome: the success branch never decodes
FetchOutcomeNoDecode(resp) ==
    IF resp.transport THEN FetchRaised
    ELSE IF resp.status = success_status_code
    THEN IF resp.body # "object" THEN FetchRaised
         ELSE [value |-> IF resp.content = Absent THEN PyNone ELSE resp.content,
               diag |-> NoDiag]
    ELSE IF resp.status = not_found_status_code
    THEN [value |-> PyNone, diag |-> Msg("not_found")]
    ELSE [value |-> PyNone, diag |-> Diag("api_error", "", resp.status, <<>>, <<>>)]

\* fetch_github_file once requests.get has answered with resp: the value it
\* returns and what it prints.  response.json() raises on a body that is not
\* JSON, data.get raises on a JSON array, data["content"] raises on an absent
\* key, and b64decode / decode raise on a payload they cannot decode.
FetchOutcome(resp) ==
    IF resp.transport THEN FetchRaised
    ELSE IF resp.status = success_status_code
    THEN IF resp.body # "object" THEN FetchRaised
         ELSE IF resp.encoding = GithubFileEncoding
         THEN IF resp.content = Absent THEN FetchRaised
              ELSE LET d == DecodeBase64Utf8(resp.content)
                   IN  IF d.ok THEN [value |-> PyStr(d.text), diag |-> NoDiag]
                       ELSE FetchRaised
         ELSE [value |-> IF resp.content = Absent THEN PyNone ELSE resp.content,
               diag |-> NoDiag]
    ELSE IF resp.status = not_found_status_code
    THEN [value |-> PyNone, diag |-> Msg("not_found")]
    ELSE [value |-> PyNone, diag |-> Diag("api_error", "", resp.status, <<>>, <<>>)]

\* a mutant of ContentRetrieved: the test of line 198 is left out
ContentAlwaysRetrieved(c) == TRUE

\* run_verification, line 198: `if not content: return False` is not taken
ContentRetrieved(c) == Truthy(c)

\* verify_answer_content on two texts: its return value
Matches(actual, expected) == Strip(actual) = Strip(expected)

\* a mutant of ExitStatus: the two codes are swapped
ExitStatusSwapped(res) == IF res = "pass" THEN 1 ELSE 0

\* main, line 229: sys.exit(0 if result else 1)
ExitStatus(res) == IF res = "pass" THEN 0 ELSE 1

expected_content == cfgDoc.vals["expected_content"]

----------------------------------------------------------------------------
(* The process *)

Init ==
    /\ pc = "main"
    /\ envExists \in BOOLEAN
    /\ token \in EnvValues
    /\ org \in EnvValues
    /\ cfgExists \in BOOLEAN
    /\ cfgDoc \in ConfigDocs
    /\ orch = "Start"
    /\ response = NoResponse
    /\ requests = 0
    /\ content = PyNone
    /\ verifyCalled = FALSE
    /\ result = "none"
    /\ stderr = <<>>
    /\ exitCode = -1
    /\ uncaught = FALSE

inputs == <<envExists, token, org, cfgExists, cfgDoc>>

\* sys.exit(1) after printing d
ExitWith(d) ==
    /\ pc' = "exited"
    /\ exitCode' = 1
    /\ stderr' = Append(stderr, d)
    /\ UNCHANGED uncaught

\* an exception nobody catches leaves main: the interpreter prints the
\* traceback and the process ends with status 1
Raise ==
    /\ pc' = "exited"
    /\ exitCode' = 1
    /\ stderr' = Append(stderr, Msg("traceback"))
    /\ uncaught' = TRUE

\* main, lines 220-221, with load_environment
LoadEnvironment ==
    /\ pc = "main"
    /\ LET e == EnvError(envExists, token, org)
       IN  IF e = NoDiag
           THEN pc' = "env_loaded" /\ UNCHANGED <<stderr, exitCode, uncaught>>
           ELSE ExitWith(e)
    /\ UNCHANGED <<inputs, orch, response, requests, content, verifyCalled, result>>

\* main, lines 223-224, with load_project_config
LoadProjectConfig ==
    /\ pc = "env_loaded"
    /\ LET e == ConfigError(cfgExists, cfgDoc)
       IN  IF e = NoDiag
           THEN pc' = "config_loaded" /\ UNCHANGED <<stderr, exitCode, uncaught>>
           ELSE ExitWith(e)
    /\ UNCHANGED <<inputs, orch, response, requests, content, verifyCalled, result>>

\* run_verification, lines 184-196: the four fields are read from config,
\* which raises unless config is a mapping that holds them
RunVerificationEnter ==
    /\ pc = "config_loaded"
    /\ IF cfgDoc.kind = "dict" /\ \A f \in Fields : cfgDoc.vals[f] # Absent
       THEN /\ pc' = "fetch"
            /\ orch' = "Fetching"
            /\ UNCHANGED <<stderr, exitCode, uncaught>>
       ELSE Raise /\ UNCHANGED orch
    /\ UNCHANGED <<inputs, response, requests, content, verifyCalled, result>>

\* run_verification, line 197: the call of fetch_github_file, lines 137-164
FetchGithubFile ==
    /\ pc = "fetch"
    /\ \E r \in Responses :
         LET o == FetchOutcome(r)
         IN  /\ response' = r
             /\ content' = o.value
             /\ stderr' = IF o.diag = NoDiag THEN stderr ELSE Append(stderr, o.diag)
    /\ requests' = requests + 1
    /\ pc' = "check"
    /\ UNCHANGED <<inputs, orch, verifyCalled, result, exitCode, uncaught>>

\* run_verification, lines 198-200: return False without content, else print
\* len(content), which raises for a value without a length
CheckContent ==
    /\ pc = "check"
    /\ IF ~ContentRetrieved(content)
       THEN /\ pc' = "returned"
            /\ orch' = "DoneFail"
            /\ result' = "fail"
            /\ UNCHANGED <<stderr, exitCode, uncaught>>
       ELSE IF HasLen(content)
       THEN /\ pc' = "verify"
            /\ orch' = "Fetched"
            /\ UNCHANGED <<result, stderr, exitCode, uncaught>>
       ELSE Raise /\ UNCHANGED <<orch, result>>
    /\ UNCHANGED <<inputs, response, requests, content, verifyCalled>>

\* run_verification, lines 203-212, with verify_answer_content, lines 170-178:
\* .strip() raises for a value that is not a str
VerifyAnswerContent ==
    /\ pc = "verify"
    /\ verifyCalled' = TRUE
    /\ IF ~IsStr(content) \/ ~IsStr(expected_content)
       THEN Raise /\ UNCHANGED <<orch, result>>
       ELSE IF Matches(content.v, expected_content.v)
       THEN /\ pc' = "returned"
            /\ orch' = "DonePass"
            /\ result' = "pass"
            /\ UNCHANGED <<stderr, exitCode, uncaught>>
       ELSE /\ pc' = "returned"
            /\ orch' = "DoneFail"
            /\ result' = "fail"
            /\ stderr' = Append(stderr, Diag("mismatch", "", 0,
                                Strip(expected_content.v), Strip(content.v)))
            /\ UNCHANGED <<exitCode, uncaught>>
    /\ UNCHANGED <<inputs, response, requests, content>>

\* main, line 229
MainExit ==
    /\ pc = "returned"
    /\ pc' = "exited"
    /\ exitCode' = ExitStatus(result)
    /\ UNCHANGED <<inputs, orch, response, requests, content, verifyCalled,
                   result, stderr, uncaught>>

Next ==
    \/ LoadEnvironment
    \/ LoadProjectConfig
    \/ RunVerificationEnter
    \/ FetchGithubFile
    \/ CheckContent
    \/ VerifyAnswerContent
    \/ MainExit

Spec == Init /\ [][Next]_vars

----------------------------------------------------------------------------
(* The comparator on its own: verify_answer_content applied to every pair   *)
(* of texts of length at most MaxCmpLen                                     *)

CmpInit ==
    /\ pc = "verify"
    /\ envExists = TRUE
    /\ token = PyStr(<<116>>)
    /\ org = PyStr(<<114>>)
    /\ cfgExists = TRUE
    /\ \E a, e \in TextsUpTo(MaxCmpLen) :
         /\ content = PyStr(a)
         /\ cfgDoc = [kind |-> "dict",
                      vals |-> [f \in Fields |-> IF f = "expected_content"
                                                 THEN PyStr(e) ELSE PyStr(<<114>>)]]
         /\ response = Resp(FALSE, success_status_code, "object", Absent, PyStr(a))
    /\ orch = "Fetched"
    /\ requests = 1
    /\ verifyCalled = FALSE
    /\ result = "none"
    /\ stderr = <<>>
    /\ exitCode = -1
    /\ uncaught = FALSE

CmpNext == VerifyAnswerContent

CmpSpec == CmpInit /\ [][CmpNext]_vars

----------------------------------------------------------------------------
(* Properties *)

Terminal == {"DonePass", "DoneFail"}

\* both loaders returned: every check of load_environment and
\* load_project_config passed
LoadSucceeded ==
    /\ EnvError(envExists, token, org) = NoDiag
    /\ ConfigError(cfgExists, cfgDoc) = NoDiag

\* the expectation is a mapping whose four fields are non-empty texts
FullyPopulated ==
    /\ cfgDoc.kind = "dict"
    /\ \A f \in Fields : IsStr(cfgDoc.vals[f]) /\ cfgDoc.vals[f].v # <<>>

\* the request was answered with the success status
GotSuccess ==
    requests > 0 /\ ~response.transport /\ response.status = success_status_code

\* the request was made and did not yield content: a transport failure, a
\* status other than success, or a success response the fetcher cannot read
FetchFailed ==
    /\ requests > 0
    /\ \/ response.transport
       \/ response.status # success_status_code
       \/ FetchOutcome(response) = FetchRaised

\* C1: after a success response that yields a content string (the empty one
\* included), and with a fully populated expectation, the run has a verdict,
\* and it is pass exactly when the stripped content equals the stripped
\* expected content.
C1_VerdictIffStrippedEqual ==
    (pc = "exited" /\ GotSuccess /\ ~FetchFailed
        /\ IsStr(content) /\ FullyPopulated)
    => /\ result \in {"pass", "fail"}
       /\ (result = "pass") <=> (Strip(content.v) = Strip(expected_content.v))

\* C2: when the fetch did not yield content the comparator is never invoked
\* and the run can only end in Done:Fail; the comparator is invoked only
\* after a success response whose content was retrieved.
C2_FetchFailureShortCircuits ==
    /\ FetchFailed =>
         /\ ~verifyCalled
         /\ pc # "verify"
         /\ pc \in {"returned", "exited"} =>
               (result = "fail" /\ orch = "DoneFail" /\ ~uncaught)
         /\ pc = "exited" => exitCode = 1
    /\ (verifyCalled \/ pc = "verify") =>
         (GotSuccess /\ ~FetchFailed /\ content # PyNone /\ Truthy(content))

\* C2 witness: a 404 ended the run as Done:Fail without the comparator
C2_Witness ==
    /\ pc = "exited"
    /\ response.status = not_found_status_code
    /\ orch = "DoneFail"
    /\ ~verifyCalled

\* C3: the exit code is 0 exactly when the verdict is pass and 1 in every
\* other ended run, in particular after every loader failure, fetch failure
\* and mismatch; no other code occurs.
C3_ExitCodeIsVerdict ==
    /\ exitCode \in {-1, 0, 1}
    /\ (pc = "exited") <=> (exitCode \in {0, 1})
    /\ (exitCode = 0) <=> (pc = "exited" /\ result = "pass" /\ orch = "DonePass")
    /\ (pc = "exited" /\ (~LoadSucceeded \/ FetchFailed \/ orch = "DoneFail"
                          \/ stderr # <<>>))
         => exitCode = 1

\* C3 witness: a run that passed and exited 0
C3_Witness ==
    /\ pc = "exited"
    /\ exitCode = 0
    /\ result = "pass"

\* C4: once both loaders have returned an expectation record (here even a
\* fully populated one), the run ends with a boolean verdict and never on an
\* unhandled exception, whatever the server answered.
C4_NoUncaughtFault ==
    (pc = "exited" /\ LoadSucceeded /\ FullyPopulated)
    => (~uncaught /\ result \in {"pass", "fail"})

\* a token, an organization or a required field is missing
MissingRequired ==
    \/ ~Truthy(token)
    \/ ~Truthy(org)
    \/ \E f \in Fields : cfgDoc.vals[f] = Absent

\* C5: with the token, the organization or a required field missing the
\* process never gets past the loaders, issues no request, and its exit code
\* is 1; a request is only ever issued after both loaders returned.
C5_NoRequestBeforeLoad ==
    /\ MissingRequired =>
         /\ pc \in {"main", "env_loaded", "exited"}
         /\ requests = 0
         /\ orch = "Start"
         /\ pc = "exited" => exitCode = 1
    /\ (requests > 0 \/ pc = "fetch") => (LoadSucceeded /\ ~MissingRequired)

\* C5 witness: a configuration without expected_content halted the process
C5_Witness ==
    /\ pc = "exited"
    /\ exitCode = 1
    /\ requests = 0
    /\ Truthy(token) /\ Truthy(org)
    /\ cfgDoc.kind = "dict"
    /\ expected_content = Absent
    /\ \A f \in Fields \ {"expected_content"} : cfgDoc.vals[f] # Absent
    /\ stderr = <<Diag("field_missing", "expected_content", 0, <<>>, <<>>)>>

\* c is s without a run of leading and a run of trailing whitespace, and c
\* neither starts nor ends with whitespace
IsCoreOf(c, s) ==
    /\ c = <<>> \/ (c[1] \notin Whitespace /\ c[Len(c)] \notin Whitespace)
    /\ \E i \in 0..Len(s) : \E j \in i..Len(s) :
         /\ SubSeq(s, i + 1, j) = c
         /\ \A k \in 1..i : s[k] \in Whitespace
         /\ \A k \in (j + 1)..Len(s) : s[k] \in Whitespace

\* a and e have a common core
SameCore(a, e) ==
    \E i \in 0..Len(a) : \E j \in i..Len(a) :
        IsCoreOf(SubSeq(a, i + 1, j), a) /\ IsCoreOf(SubSeq(a, i + 1, j), e)

\* C6: the comparator returns true exactly for texts that are equal up to
\* leading and trailing whitespace: matches(a, e) = matches(strip(a),
\* strip(e)), matches(x, x) holds, texts with a common core match, and texts
\* whose cores differ (in case, inner whitespace or any character) do not.
C6_ComparatorStripsOnlyEnds ==
    pc = "returned" =>
        LET a == content.v
            e == expected_content.v
        IN  /\ (result = "pass") <=> Matches(Strip(a), Strip(e))
            /\ a = e => result = "pass"
            /\ (result = "pass") <=> SameCore(a, e)
            /\ (Len(a) = Len(e) /\ a # e
                  /\ \A k \in 1..Len(a) : a[k] \notin Whitespace /\ e[k] \notin Whitespace)
                 => result = "fail"
            /\ result = "fail" =>
                 stderr = <<Diag("mismatch", "", 0, Strip(e), Strip(a))>>

\* C6 witness: " a\n" was compared with "a" and matched
C6_Witness ==
    /\ pc = "returned"
    /\ content = PyStr(<<32, 97, 10>>)
    /\ expected_content = PyStr(<<97>>)
    /\ result = "pass"

\* C7: a run in Done:Fail has printed a diagnostic, and the last one printed
\* names what happened: not found for a 404, the API error with its status
\* for another status, the request exception for a failed request or an
\* unreadable success response, the mismatch block otherwise (stated for
\* fully populated expectations).
C7_FailureHasDiagnostic ==
    (orch = "DoneFail" /\ FullyPopulated) =>
        /\ stderr # <<>>
        /\ LET d == stderr[Len(stderr)]
           IN  IF response.transport THEN d.kind = "request_exception"
               ELSE IF response.status = not_found_status_code THEN d.kind = "not_found"
               ELSE IF response.status # success_status_code
               THEN d.kind = "api_error" /\ d.status = response.status
               ELSE IF FetchFailed THEN d.kind = "request_exception"
               ELSE d.kind = "mismatch"

\* the server kept to the contents API: content, if any, is a text
ContentIsText == response.content = Absent \/ IsStr(response.content)

\* repository, branch and path are non-empty texts
CoordsPopulated ==
    \A f \in Fields \ {"expected_content"} :
        IsStr(cfgDoc.vals[f]) /\ cfgDoc.vals[f].v # <<>>

\* C8: at most one request is issued, and a process that ended after the
\* orchestrator left Start ended with the orchestrator in Done:Pass or
\* Done:Fail (stated for answers whose content field is a text and for
\* expectations with repository, branch and path given).
C8_OneFetchOneTerminal ==
    /\ requests <= 1
    /\ (pc = "exited" /\ orch # "Start" /\ ContentIsText /\ CoordsPopulated)
         => orch \in Terminal

\* C9: on a success response with a JSON object, the fetcher returns the
\* base64-decoded UTF-8 text of content when encoding is "base64" (and the
\* payload decodes), and the content field as it is for any other or absent
\* encoding; what reaches the comparator under "base64" is the decoded text.
C9_DecodedIffBase64 ==
    (GotSuccess /\ response.body = "object") =>
        LET d == DecodeBase64Utf8(response.content)
        IN  /\ (response.encoding = GithubFileEncoding /\ d.ok)
                 => content = PyStr(d.text)
            /\ (response.encoding = GithubFileEncoding
                  /\ response.content = PyStr(<<97, 71, 86, 115, 98, 71, 56, 61>>))
                 => content = PyStr(<<104, 101, 108, 108, 111>>)
            /\ response.encoding # GithubFileEncoding
                 => content = (IF response.content = Absent THEN PyNone
                               ELSE response.content)
            /\ (verifyCalled /\ response.encoding = GithubFileEncoding)
                 => (d.ok /\ content = PyStr(d.text))

\* C9 witness: "aGVsbG8=" declared base64 reached the comparator as "hello"
C9_Witness ==
    /\ verifyCalled
    /\ response.encoding = GithubFileEncoding
    /\ response.content = PyStr(<<97, 71, 86, 115, 98, 71, 56, 61>>)
    /\ content = PyStr(<<104, 101, 108, 108, 111>>)

\* C10: once run_verification has been entered, all four fields of the
\* expectation are present and non-empty.
C10_FieldsPresentNonEmpty ==
    orch # "Start" =>
        \A f \in Fields : cfgDoc.vals[f] # Absent /\ Truthy(cfgDoc.vals[f])

====
